---- MODULE Spec2Model ----
(***************************************************************************)
(* Model of the Anki MCP server (src/src/server.py) and of its Japanese    *)
(* vocabulary helpers (src/src/japanese_utils.py).                         *)
(*                                                                         *)
(* Text that the code inspects character by character (expressions,        *)
(* readings, tag columns) is a sequence of Unicode code points, so that    *)
(* the range tests of is_kanji / is_kana and the behaviour of str.strip    *)
(* and str.split are computed, not assumed.  Names that the code only      *)
(* compares for equality (deck names, note type names) are TLA+ strings.   *)
(***************************************************************************)
EXTENDS Integers, Sequences, FiniteSets, TLC

\* ------------------------------------------------------------------------
\* Bounds of the model
\* ------------------------------------------------------------------------

\* longest expression / reading handed to add_furigana in SpecFurigana
MaxLen == 3

\* ------------------------------------------------------------------------
\* Python string primitives
\* ------------------------------------------------------------------------

\* the code points str.strip() removes (str.isspace)
Whitespace ==
    (9..13) \cup (28..32) \cup {133, 160, 5760} \cup (8192..8202)
        \cup {8232, 8233, 8239, 8287, 12288}

RECURSIVE lstrip(_)
lstrip(s) ==
    IF s = <<>> THEN <<>>
    ELSE IF Head(s) \in Whitespace THEN lstrip(Tail(s)) ELSE s

RECURSIVE rstrip(_)
rstrip(s) ==
    IF s = <<>> THEN <<>>
    ELSE IF s[Len(s)] \in Whitespace THEN rstrip(SubSeq(s, 1, Len(s) - 1)) ELSE s

strip(s) == rstrip(lstrip(s))

\* str.split(sep) with an explicit one-character separator: the pieces
\* between separators, empty pieces kept, "" gives [""]
RECURSIVE split_from(_, _, _, _, _)
split_from(s, sep, i, cur, acc) ==
    IF i > Len(s) THEN Append(acc, cur)
    ELSE IF s[i] = sep THEN split_from(s, sep, i + 1, <<>>, Append(acc, cur))
    ELSE split_from(s, sep, i + 1, Append(cur, s[i]), acc)

split(s, sep) == split_from(s, sep, 1, <<>>, <<>>)

\* ''.join(parts)
RECURSIVE join(_)
join(parts) == IF parts = <<>> THEN <<>> ELSE Head(parts) \o join(Tail(parts))

\* ------------------------------------------------------------------------
\* japanese_utils.py
\* ------------------------------------------------------------------------

\* '一' <= char <= '鿿'
is_kanji(char) == 19968 <= char /\ char <= 40959

\* hiragana '぀'..'ゟ' or katakana '゠'..'ヿ'
is_kana(char) ==
    \/ (12352 <= char /\ char <= 12447)
    \/ (12448 <= char /\ char <= 12543)

\* the first loop of add_furigana: every kana is a segment of its own, a
\* maximal run of other characters is one segment
RECURSIVE kana_segments_from(_, _, _, _)
kana_segments_from(reading, i, kana_segments, current_segment) ==
    IF i > Len(reading)
    THEN IF current_segment # <<>>
         THEN Append(kana_segments, current_segment)
         ELSE kana_segments
    ELSE LET char == reading[i] IN
         IF is_kana(char)
         THEN kana_segments_from(reading, i + 1,
                  Append(IF current_segment # <<>>
                         THEN Append(kana_segments, current_segment)
                         ELSE kana_segments,
                         <<char>>),
                  <<>>)
         ELSE kana_segments_from(reading, i + 1, kana_segments,
                  Append(current_segment, char))

kana_segments_of(reading) == kana_segments_from(reading, 1, <<>>, <<>>)

\* match_segments without the advance of kana_idx on a character that is
\* not a kanji
RECURSIVE match_segments_no_sync(_, _, _, _, _)
match_segments_no_sync(expression, i, kana_segments, kana_idx, result) ==
    IF i > Len(expression) THEN join(result)
    ELSE LET char == expression[i] IN
         IF is_kanji(char) /\ kana_idx < Len(kana_segments)
         THEN match_segments_no_sync(expression, i + 1, kana_segments, kana_idx + 1,
                  Append(result,
                         <<char, 91>> \o kana_segments[kana_idx + 1] \o <<93>>))
         ELSE match_segments_no_sync(expression, i + 1, kana_segments, kana_idx,
                  Append(result, <<char>>))

\* the second loop of add_furigana; kana_idx counts the consumed segments
RECURSIVE match_segments(_, _, _, _, _)
match_segments(expression, i, kana_segments, kana_idx, result) ==
    IF i > Len(expression) THEN join(result)
    ELSE LET char == expression[i] IN
         IF is_kanji(char)
         THEN IF kana_idx < Len(kana_segments)
              THEN match_segments(expression, i + 1, kana_segments, kana_idx + 1,
                       Append(result,
                              <<char, 91>> \o kana_segments[kana_idx + 1] \o <<93>>))
              ELSE match_segments(expression, i + 1, kana_segments, kana_idx,
                       Append(result, <<char>>))
         ELSE IF kana_idx < Len(kana_segments)
                    /\ <<char>> = kana_segments[kana_idx + 1]
              THEN match_segments(expression, i + 1, kana_segments, kana_idx + 1,
                       Append(result, <<char>>))
              ELSE match_segments(expression, i + 1, kana_segments, kana_idx,
                       Append(result, <<char>>))

\* add_furigana without its early return for kanji-free expressions
add_furigana_no_early_return(expression, reading) ==
    match_segments(expression, 1, kana_segments_of(reading), 0, <<>>)

add_furigana(expression, reading) ==
    IF ~ \E i \in 1..Len(expression) : is_kanji(expression[i])
    THEN reading
    ELSE match_segments(expression, 1, kana_segments_of(reading), 0, <<>>)

\* the value None where the code expects a str
None == <<-1>>

CsvColumns == {"Expression", "Reading", "Meaning", "Tags"}

\* csv.DictReader: row.get(key, '') of the dict zip(fieldnames, cells); a
\* column the header lacks gives the default '', a cell the row lacks gives
\* the restval None
row_get(fieldnames, cells, key) ==
    IF \A k \in 1..Len(fieldnames) : fieldnames[k] # key THEN <<>>
    ELSE LET k == CHOOSE k \in 1..Len(fieldnames) :
                      /\ fieldnames[k] = key
                      /\ \A m \in (k + 1)..Len(fieldnames) : fieldnames[m] # key
         IN IF k <= Len(cells) THEN cells[k] ELSE None

\* [tag.strip() for tag in text.split(sep)]
RECURSIVE strip_each(_)
strip_each(parts) ==
    IF parts = <<>> THEN <<>> ELSE <<strip(Head(parts))>> \o strip_each(Tail(parts))

\* note_tags with the additional tags put before the csv tags
note_tags_extras_first(csv_tags_cell, additional_tags) ==
    LET csv_tags == strip(csv_tags_cell) IN
    (IF additional_tags # <<>> THEN additional_tags ELSE <<>>)
        \o (IF csv_tags # <<>> THEN strip_each(split(csv_tags, 59)) ELSE <<>>)

\* note_tags of one row of read_vocab_csv
note_tags_of(csv_tags_cell, additional_tags) ==
    LET csv_tags == strip(csv_tags_cell) IN
    (IF csv_tags # <<>> THEN strip_each(split(csv_tags, 59)) ELSE <<>>)
        \o (IF additional_tags # <<>> THEN additional_tags ELSE <<>>)

\* .strip() of a cell that is None raises AttributeError
row_raises(fieldnames, cells) ==
    \E key \in CsvColumns : row_get(fieldnames, cells, key) = None

\* the body of the loop of read_vocab_csv for a row that does not raise
vocab_entry(fieldnames, cells, additional_tags) ==
    LET expression == strip(row_get(fieldnames, cells, "Expression"))
        reading == strip(row_get(fieldnames, cells, "Reading"))
        reading_with_furigana == add_furigana(expression, reading)
    IN [fields |-> <<expression,
                     strip(row_get(fieldnames, cells, "Meaning")),
                     reading_with_furigana>>,
        tags |-> note_tags_of(row_get(fieldnames, cells, "Tags"), additional_tags),
        expression |-> expression]

\* csv.DictReader skips the rows that have no cell at all (blank lines)
RECURSIVE nonblank_rows(_)
nonblank_rows(rows) ==
    IF rows = <<>> THEN <<>>
    ELSE (IF Head(rows) = <<>> THEN <<>> ELSE <<Head(rows)>>)
             \o nonblank_rows(Tail(rows))

\* read_vocab_csv giving the rows before the first one that raises instead
\* of raising
read_vocab_csv_rows_before_failure(file, additional_tags) ==
    LET rows == nonblank_rows(file.rows)
        bad == {k \in 1..Len(rows) : row_raises(file.fieldnames, rows[k])}
        n == IF ~ file.exists THEN 0
             ELSE IF bad = {} THEN Len(rows)
             ELSE (CHOOSE k \in bad : \A m \in bad : k <= m) - 1
    IN [raised |-> FALSE,
        entries |-> [k \in 1..n |->
                        vocab_entry(file.fieldnames, rows[k], additional_tags)]]

\* read_vocab_csv: the file is [exists, fieldnames, rows]; any exception is
\* logged and raised again, so the caller gets either every entry or none
read_vocab_csv(file, additional_tags) ==
    LET rows == nonblank_rows(file.rows) IN
    IF ~ file.exists \/ \E k \in 1..Len(rows) : row_raises(file.fieldnames, rows[k])
    THEN [raised |-> TRUE, entries |-> <<>>]
    ELSE [raised |-> FALSE,
          entries |-> [k \in 1..Len(rows) |->
                          vocab_entry(file.fieldnames, rows[k], additional_tags)]]

\* ------------------------------------------------------------------------
\* server.py: the additional tags of import_japanese_vocab
\* ------------------------------------------------------------------------

\* additional_tags = [tag.strip() for tag in tags.split(',')] if tags else []
additional_tags_of(tags) ==
    IF tags = None \/ tags = <<>> THEN <<>> ELSE strip_each(split(tags, 44))

\* ------------------------------------------------------------------------
\* State
\* ------------------------------------------------------------------------

VARIABLES
    decks,      \* the names of the decks of the collection
    models,     \* the names of the note types of the collection
    notes,      \* the notes of the collection, each with one card in a deck
    revlog,     \* the review log of the collection
    csv_file,   \* the file at csv_path
    handles,    \* every Collection object constructed so far
    requests,   \* the number of requests received so far
    op,         \* the tool or resource that serves the current request
    args,       \* its arguments
    pc,         \* its position
    col,        \* its local variable col: 0 is None, else a handle
    local,      \* the other local variables of import_japanese_vocab
    ret,        \* how the request ended: a returned value or a raised exception
    spy,        \* what the current request did so far (observation only)
    prev,       \* the request served before the current one (observation only)
    call        \* a direct call of a helper of japanese_utils.py

store_vars == <<decks, models, notes, revlog, csv_file>>
request_vars == <<handles, requests, op, args, pc, col, local, ret, spy, prev>>
vars == <<decks, models, notes, revlog, csv_file, handles, requests, op, args,
          pc, col, local, ret, spy, prev, call>>

\* ------------------------------------------------------------------------
\* The collection
\* ------------------------------------------------------------------------

\* number of requests served in one behaviour
MaxRequests == 3

\* number of rows of the csv file
MaxRows == 2

JapaneseNotetype == "Japanese (recognition)"

DeckIds == [Default |-> 1, Vocab |-> 2]

\* col.decks.id_for_name(name): the id of the deck, None (0) when absent
id_for_name(name) == IF name \in decks THEN DeckIds[name] ELSE 0

\* col.models.by_name(name): the note type, None ("") when absent
by_name(name) == IF name \in models THEN name ELSE ""

\* col.decks.cids(deck_id): the cards of the deck, in id order; note n has
\* the single card n
cids(deck_id) == {n \in 1..Len(notes) : notes[n].did = deck_id}

\* ------------------------------------------------------------------------
\* A request: start, Collection(...), finally col.close()
\* ------------------------------------------------------------------------

NoLocal ==
    [deck_id |-> 0, notetype |-> "", additional_tags |-> <<>>,
     existing_notes |-> <<>>, vocab_entries |-> <<>>, next |-> 1,
     notes_added |-> 0, notes_updated |-> 0, notes_skipped |-> 0]

NoRet == [kind |-> "none", msg |-> ""]

Raised(msg) == [kind |-> "raise", msg |-> msg]

NoSpy ==
    [source_opens |-> 0, save_calls |-> 0, add_note_raised |-> 0,
     failed_calls |-> 0, row_outcome |-> <<>>, notes_before |-> <<>>]

NoRequest == [op |-> "none", args |-> <<>>, ret |-> NoRet]

\* a request arrives when no other is being served; the tool or resource
\* sets col = None and enters its try block
Arrive ==
    /\ pc \in {"idle", "done"}
    /\ requests < MaxRequests
    /\ requests' = requests + 1
    /\ pc' = "open"
    /\ col' = 0
    /\ local' = NoLocal
    /\ ret' = NoRet
    /\ spy' = [NoSpy EXCEPT !.notes_before = notes]
    /\ prev' = [op |-> op, args |-> args, ret |-> ret]
    /\ UNCHANGED <<store_vars, handles, call>>

\* col = Collection(self.collection_path); nothing was closed twice
OpenCollection ==
    /\ pc = "open"
    /\ handles' = Append(handles, [owner |-> requests, closes |-> 0])
    /\ col' = Len(handles) + 1
    /\ pc' = "body"
    /\ UNCHANGED <<store_vars, requests, op, args, local, ret, spy, prev, call>>

\* Collection(...) raises: col stays None, the exception is logged and raised
OpenCollectionFails ==
    /\ pc = "open"
    /\ ret' = Raised("open")
    /\ spy' = [spy EXCEPT !.failed_calls = @ + 1]
    /\ pc' = "finally"
    /\ UNCHANGED <<store_vars, handles, requests, op, args, col, local, prev, call>>

\* col.close() at the end of the try body: skipped when an exception is raised
CloseOnlyOnReturn ==
    /\ pc = "finally"
    /\ handles' = IF col # 0 /\ ret.kind # "raise"
                  THEN [handles EXCEPT ![col].closes = @ + 1]
                  ELSE handles
    /\ pc' = "done"
    /\ UNCHANGED <<store_vars, requests, op, args, col, local, ret, spy, prev, call>>

\* finally: if col: col.close()
Finally ==
    /\ pc = "finally"
    /\ handles' = IF col # 0
                  THEN [handles EXCEPT ![col].closes = @ + 1]
                  ELSE handles
    /\ pc' = "done"
    /\ UNCHANGED <<store_vars, requests, op, args, col, local, ret, spy, prev, call>>

\* ------------------------------------------------------------------------
\* import_japanese_vocab
\* ------------------------------------------------------------------------

Import == "import_japanese_vocab"

StartImport ==
    \E deck_name \in {"Vocab"}, tags \in {None, <<98, 97, 116, 99, 104, 49>>} :
        /\ Arrive
        /\ op' = Import
        /\ args' = [csv_path |-> "vocab.csv", deck_name |-> deck_name, tags |-> tags]

\* ImportDeck without the return for an absent deck
ImportDeckUnchecked ==
    /\ op = Import /\ pc = "body"
    /\ local' = [local EXCEPT !.deck_id = id_for_name(args.deck_name)]
    /\ pc' = "notetype"
    /\ UNCHANGED <<store_vars, handles, requests, op, args, col, ret, spy, prev, call>>

\* deck_id = col.decks.id_for_name(deck_name); return the error when absent
ImportDeck ==
    /\ op = Import /\ pc = "body"
    /\ local' = [local EXCEPT !.deck_id = id_for_name(args.deck_name)]
    /\ IF id_for_name(args.deck_name) = 0
       THEN /\ ret' = [kind |-> "return", msg |-> "Error: Deck not found"]
            /\ pc' = "finally"
       ELSE /\ pc' = "notetype"
            /\ UNCHANGED ret
    /\ UNCHANGED <<store_vars, handles, requests, op, args, col, spy, prev, call>>

\* ImportNotetype raising for an absent note type instead of returning
ImportNotetypeRaises ==
    /\ op = Import /\ pc = "notetype"
    /\ local' = [local EXCEPT !.notetype = by_name(JapaneseNotetype),
                              !.additional_tags = additional_tags_of(args.tags)]
    /\ IF by_name(JapaneseNotetype) = ""
       THEN /\ ret' = Raised("note type not found")
            /\ pc' = "finally"
       ELSE /\ pc' = "existing_notes"
            /\ UNCHANGED ret
    /\ UNCHANGED <<store_vars, handles, requests, op, args, col, spy, prev, call>>

\* notetype = col.models.by_name(...); return the error when absent; then
\* the additional tags
ImportNotetype ==
    /\ op = Import /\ pc = "notetype"
    /\ local' = [local EXCEPT !.notetype = by_name(JapaneseNotetype),
                              !.additional_tags = additional_tags_of(args.tags)]
    /\ IF by_name(JapaneseNotetype) = ""
       THEN /\ ret' = [kind |-> "return", msg |-> "Error: note type not found"]
            /\ pc' = "finally"
       ELSE /\ pc' = "existing_notes"
            /\ UNCHANGED ret
    /\ UNCHANGED <<store_vars, handles, requests, op, args, col, spy, prev, call>>

\* existing_notes keyed by the second field instead of the first
existing_notes_by_meaning(deck_id) ==
    LET keys == {notes[n].fields[2] : n \in cids(deck_id)} IN
    [k \in keys |->
        LET n == CHOOSE n \in cids(deck_id) :
                     /\ notes[n].fields[2] = k
                     /\ \A m \in cids(deck_id) : notes[m].fields[2] = k => m <= n
        IN [nid |-> n, fields |-> notes[n].fields, tags |-> notes[n].tags]]

\* existing_notes[note.fields[0]] = note for every card of the deck: a Note
\* object per key, the one of the last card with that first field
existing_notes_of(deck_id) ==
    LET keys == {notes[n].fields[1] : n \in cids(deck_id)} IN
    [k \in keys |->
        LET n == CHOOSE n \in cids(deck_id) :
                     /\ notes[n].fields[1] = k
                     /\ \A m \in cids(deck_id) : notes[m].fields[1] = k => m <= n
        IN [nid |-> n, fields |-> notes[n].fields, tags |-> notes[n].tags]]

ImportExistingNotes ==
    /\ op = Import /\ pc = "existing_notes"
    /\ local' = [local EXCEPT !.existing_notes = existing_notes_of(local.deck_id)]
    /\ pc' = "read"
    /\ UNCHANGED <<store_vars, handles, requests, op, args, col, ret, spy, prev, call>>

\* vocab_entries = read_vocab_csv(csv_path, additional_tags)
ImportRead ==
    /\ op = Import /\ pc = "read"
    /\ spy' = [spy EXCEPT !.source_opens = @ + 1]
    /\ LET read == read_vocab_csv(csv_file, local.additional_tags) IN
       IF read.raised
       THEN /\ ret' = Raised("read_vocab_csv")
            /\ pc' = "finally"
            /\ UNCHANGED local
       ELSE /\ local' = [local EXCEPT !.vocab_entries = read.entries, !.next = 1]
            /\ pc' = "loop"
            /\ UNCHANGED ret
    /\ UNCHANGED <<store_vars, handles, requests, op, args, col, prev, call>>

HasEntry == local.next <= Len(local.vocab_entries)
Entry == local.vocab_entries[local.next]

\* ImportUpdate with a col.save() after the row
ImportUpdateSavesRow ==
    /\ op = Import /\ pc = "loop" /\ HasEntry
    /\ Entry.expression \in DOMAIN local.existing_notes
    /\ local' = [local EXCEPT
                    !.existing_notes[Entry.expression] =
                        [@ EXCEPT !.fields = Entry.fields, !.tags = Entry.tags],
                    !.notes_updated = @ + 1,
                    !.next = @ + 1]
    /\ spy' = [spy EXCEPT !.row_outcome = Append(@, "updated"),
                          !.save_calls = @ + 1]
    /\ UNCHANGED <<store_vars, handles, requests, op, args, pc, col, ret, prev, call>>

\* the note exists: its Note object gets the fields and the tags; nothing
\* writes the object back to the collection
ImportUpdate ==
    /\ op = Import /\ pc = "loop" /\ HasEntry
    /\ Entry.expression \in DOMAIN local.existing_notes
    /\ local' = [local EXCEPT
                    !.existing_notes[Entry.expression] =
                        [@ EXCEPT !.fields = Entry.fields, !.tags = Entry.tags],
                    !.notes_updated = @ + 1,
                    !.next = @ + 1]
    /\ spy' = [spy EXCEPT !.row_outcome = Append(@, "updated")]
    /\ UNCHANGED <<store_vars, handles, requests, op, args, pc, col, ret, prev, call>>

\* the new note filed in the default deck whatever deck_id is
added_note_in_default_deck(notetype, deck_id, entry) ==
    [mid |-> notetype, did |-> 1, fields |-> entry.fields, tags |-> entry.tags]

\* note = col.new_note(notetype) with the fields and the tags of the entry,
\* as col.add_note(note, deck_id) stores it: its card is in the deck
added_note(notetype, deck_id, entry) ==
    [mid |-> notetype, did |-> deck_id, fields |-> entry.fields, tags |-> entry.tags]

\* ImportAdd that also enters the new note in existing_notes
ImportAddIndexesNote ==
    /\ op = Import /\ pc = "loop" /\ HasEntry
    /\ Entry.expression \notin DOMAIN local.existing_notes
    /\ notes' = Append(notes, added_note(local.notetype, local.deck_id, Entry))
    /\ local' = [local EXCEPT
                    !.existing_notes =
                        [e \in DOMAIN @ \cup {Entry.expression} |->
                            IF e = Entry.expression
                            THEN [nid |-> Len(notes) + 1, fields |-> Entry.fields,
                                  tags |-> Entry.tags]
                            ELSE @[e]],
                    !.notes_added = @ + 1,
                    !.next = @ + 1]
    /\ spy' = [spy EXCEPT !.row_outcome = Append(@, "added")]
    /\ UNCHANGED <<decks, models, revlog, csv_file, handles, requests, op, args,
                   pc, col, ret, prev, call>>

\* a new note takes the fields and the tags; col.add_note files it in the deck
ImportAdd ==
    /\ op = Import /\ pc = "loop" /\ HasEntry
    /\ Entry.expression \notin DOMAIN local.existing_notes
    /\ notes' = Append(notes, added_note(local.notetype, local.deck_id, Entry))
    /\ local' = [local EXCEPT !.notes_added = @ + 1, !.next = @ + 1]
    /\ spy' = [spy EXCEPT !.row_outcome = Append(@, "added")]
    /\ UNCHANGED <<decks, models, revlog, csv_file, handles, requests, op, args,
                   pc, col, ret, prev, call>>

\* col.add_note raises and nothing catches it inside the loop
ImportAddFailsUncaught ==
    /\ op = Import /\ pc = "loop" /\ HasEntry
    /\ Entry.expression \notin DOMAIN local.existing_notes
    /\ ret' = Raised("add_note")
    /\ spy' = [spy EXCEPT !.add_note_raised = @ + 1, !.failed_calls = @ + 1]
    /\ pc' = "finally"
    /\ UNCHANGED <<store_vars, handles, requests, op, args, col, local, prev, call>>

\* ImportAddFails that goes on to the next row without counting the row
ImportAddFailsUncounted ==
    /\ op = Import /\ pc = "loop" /\ HasEntry
    /\ Entry.expression \notin DOMAIN local.existing_notes
    /\ local' = [local EXCEPT !.next = @ + 1]
    /\ spy' = [spy EXCEPT !.row_outcome = Append(@, "skipped"),
                          !.add_note_raised = @ + 1,
                          !.failed_calls = @ + 1]
    /\ UNCHANGED <<store_vars, handles, requests, op, args, pc, col, ret, prev, call>>

\* col.add_note raises: the exception is logged and the row counted as skipped
ImportAddFails ==
    /\ op = Import /\ pc = "loop" /\ HasEntry
    /\ Entry.expression \notin DOMAIN local.existing_notes
    /\ local' = [local EXCEPT !.notes_skipped = @ + 1, !.next = @ + 1]
    /\ spy' = [spy EXCEPT !.row_outcome = Append(@, "skipped"),
                          !.add_note_raised = @ + 1,
                          !.failed_calls = @ + 1]
    /\ UNCHANGED <<store_vars, handles, requests, op, args, pc, col, ret, prev, call>>

\* col.new_note raises: outside the inner try, so the run ends
ImportNewNoteFails ==
    /\ op = Import /\ pc = "loop" /\ HasEntry
    /\ Entry.expression \notin DOMAIN local.existing_notes
    /\ ret' = Raised("new_note")
    /\ spy' = [spy EXCEPT !.failed_calls = @ + 1]
    /\ pc' = "finally"
    /\ UNCHANGED <<store_vars, handles, requests, op, args, col, local, prev, call>>

Summary ==
    [kind |-> "return", msg |-> "Import complete",
     added |-> local.notes_added, updated |-> local.notes_updated,
     skipped |-> local.notes_skipped]

\* after the last entry: col.save(), then the summary is returned
ImportSave ==
    /\ op = Import /\ pc = "loop" /\ ~ HasEntry
    /\ spy' = [spy EXCEPT !.save_calls = @ + 1]
    /\ ret' = Summary
    /\ pc' = "finally"
    /\ UNCHANGED <<store_vars, handles, requests, op, args, col, local, prev, call>>

\* col.save() raises
ImportSaveFails ==
    /\ op = Import /\ pc = "loop" /\ ~ HasEntry
    /\ spy' = [spy EXCEPT !.save_calls = @ + 1, !.failed_calls = @ + 1]
    /\ ret' = Raised("save")
    /\ pc' = "finally"
    /\ UNCHANGED <<store_vars, handles, requests, op, args, col, local, prev, call>>

\* ------------------------------------------------------------------------
\* The resources
\* ------------------------------------------------------------------------

Returned(msg, value) == [kind |-> "return", msg |-> msg, value |-> value]

\* the first fields of the cards of a set, in card order
RECURSIVE questions_of(_, _)
questions_of(n, cards) ==
    IF n > Len(notes) THEN <<>>
    ELSE (IF n \in cards THEN <<notes[n].fields[1]>> ELSE <<>>)
             \o questions_of(n + 1, cards)

\* the cards that have an entry in the review log; the entries of one
\* behaviour are all taken to be less than a day old (search "rated:1")
rated_cards == {revlog[k].cid : k \in 1..Len(revlog)}

StartListDecks ==
    /\ Arrive
    /\ op' = "list_decks"
    /\ args' = <<>>

\* decks = col.decks.all(); the names are returned
ListDecks ==
    /\ op = "list_decks" /\ pc = "body"
    /\ ret' = Returned("decks", decks)
    /\ pc' = "finally"
    /\ UNCHANGED <<store_vars, handles, requests, op, args, col, local, spy, prev, call>>

StartListDeckCards ==
    \E deck_name \in {"Vocab"} :
        /\ Arrive
        /\ op' = "list_deck_cards"
        /\ args' = [deck_name |-> deck_name]

\* cards = col.find_cards("deck:<name>"): none when the deck is absent
ListDeckCards ==
    /\ op = "list_deck_cards" /\ pc = "body"
    /\ ret' = Returned("cards", questions_of(1, cids(id_for_name(args.deck_name))))
    /\ pc' = "finally"
    /\ UNCHANGED <<store_vars, handles, requests, op, args, col, local, spy, prev, call>>

StartListRecentlyReviewed ==
    /\ Arrive
    /\ op' = "list_recently_reviewed"
    /\ args' = <<>>

\* cards = col.find_cards("rated:1"); the early return when there is none
ListRecentlyReviewed ==
    /\ op = "list_recently_reviewed" /\ pc = "body"
    /\ ret' = IF rated_cards = {}
              THEN Returned("No cards reviewed in the last 24 hours.", <<>>)
              ELSE Returned("reviewed", questions_of(1, rated_cards))
    /\ pc' = "finally"
    /\ UNCHANGED <<store_vars, handles, requests, op, args, col, local, spy, prev, call>>

StartListRecentlyLearned ==
    /\ Arrive
    /\ op' = "list_recently_learned"
    /\ args' = <<>>

\* cards = col.find_cards("rated:1 prop:ivl>0"): which of the reviewed cards
\* have a positive interval is decided by the scheduler of the library
ListRecentlyLearned ==
    /\ op = "list_recently_learned" /\ pc = "body"
    /\ \E learned \in SUBSET rated_cards :
          ret' = IF learned = {}
                 THEN Returned("No cards learned in the last 24 hours.", <<>>)
                 ELSE Returned("learned", questions_of(1, learned))
    /\ pc' = "finally"
    /\ UNCHANGED <<store_vars, handles, requests, op, args, col, local, spy, prev, call>>

\* ------------------------------------------------------------------------
\* The other tools
\* ------------------------------------------------------------------------

StartAddCard ==
    \E deck_name \in {"Vocab"} :
        /\ Arrive
        /\ op' = "add_card"
        /\ args' = [deck_name |-> deck_name,
                    front |-> <<39135, 12409, 12427>>, back |-> <<101>>]

\* a Basic note with front and back is added to the deck
AddCard ==
    /\ op = "add_card" /\ pc = "body"
    /\ id_for_name(args.deck_name) # 0 /\ by_name("Basic") # ""
    /\ notes' = Append(notes, [mid |-> "Basic", did |-> id_for_name(args.deck_name),
                               fields |-> <<args.front, args.back>>, tags |-> <<>>])
    /\ ret' = Returned("Added new card to deck", <<>>)
    /\ pc' = "finally"
    /\ UNCHANGED <<decks, models, revlog, csv_file, handles, requests, op, args,
                   col, local, spy, prev, call>>

\* col.new_note(None) or col.add_note(note, None) raises, or the collection
\* rejects the note
AddCardFails ==
    /\ op = "add_card" /\ pc = "body"
    /\ ret' = Raised("add_card")
    /\ spy' = [spy EXCEPT !.failed_calls = @ + 1]
    /\ pc' = "finally"
    /\ UNCHANGED <<store_vars, handles, requests, op, args, col, local, prev, call>>

CardIds == 1..2

\* review_card without the check of ease
ReviewCardEaseUnchecked ==
    \E card_id \in CardIds, ease \in {0, 5} :
        /\ Arrive
        /\ op' = "review_card"
        /\ args' = [card_id |-> card_id, ease |-> ease]

\* if not 1 <= ease <= 4: raise ValueError, before col is assigned
ReviewCardInvalidEase ==
    \E card_id \in CardIds, ease \in {0, 5} :
        /\ pc \in {"idle", "done"}
        /\ requests < MaxRequests
        /\ requests' = requests + 1
        /\ op' = "review_card"
        /\ args' = [card_id |-> card_id, ease |-> ease]
        /\ ~ (1 <= ease /\ ease <= 4)
        /\ pc' = "done"
        /\ col' = 0
        /\ local' = NoLocal
        /\ ret' = Raised("Ease must be between 1 and 4")
        /\ spy' = [NoSpy EXCEPT !.notes_before = notes]
        /\ prev' = [op |-> op, args |-> args, ret |-> ret]
        /\ UNCHANGED <<store_vars, handles, call>>

StartReviewCard ==
    \E card_id \in CardIds, ease \in {1, 4} :
        /\ 1 <= ease /\ ease <= 4
        /\ Arrive
        /\ op' = "review_card"
        /\ args' = [card_id |-> card_id, ease |-> ease]

\* card = col.get_card(card_id); col.sched.answer_card(card, ease) logs the review
ReviewCard ==
    /\ op = "review_card" /\ pc = "body"
    /\ args.card_id \in 1..Len(notes)
    /\ revlog' = Append(revlog, [cid |-> args.card_id, ease |-> args.ease])
    /\ ret' = Returned("Card reviewed", <<args.card_id, args.ease>>)
    /\ pc' = "finally"
    /\ UNCHANGED <<decks, models, notes, csv_file, handles, requests, op, args,
                   col, local, spy, prev, call>>

\* col.get_card raises for a card that does not exist
ReviewCardNotFound ==
    /\ op = "review_card" /\ pc = "body"
    /\ args.card_id \notin 1..Len(notes)
    /\ ret' = Raised("get_card")
    /\ spy' = [spy EXCEPT !.failed_calls = @ + 1]
    /\ pc' = "finally"
    /\ UNCHANGED <<store_vars, handles, requests, op, args, col, local, prev, call>>

StartGetCardHistory ==
    \E card_id \in CardIds :
        /\ Arrive
        /\ op' = "get_card_history"
        /\ args' = [card_id |-> card_id]

\* "select ... from revlog order by id desc limit 5": the latest five
\* entries of the whole log, latest first
RECURSIVE latest_revlog(_, _)
latest_revlog(k, limit) ==
    IF k = 0 \/ limit = 0 THEN <<>>
    ELSE <<revlog[k]>> \o latest_revlog(k - 1, limit - 1)

GetCardHistory ==
    /\ op = "get_card_history" /\ pc = "body"
    /\ args.card_id \in 1..Len(notes)
    /\ LET rows == latest_revlog(Len(revlog), 5) IN
       ret' = IF rows = <<>>
              THEN Returned("No review history found for card", <<>>)
              ELSE Returned("Review history for card", rows)
    /\ pc' = "finally"
    /\ UNCHANGED <<store_vars, handles, requests, op, args, col, local, spy, prev, call>>

GetCardHistoryNotFound ==
    /\ op = "get_card_history" /\ pc = "body"
    /\ args.card_id \notin 1..Len(notes)
    /\ ret' = Raised("get_card")
    /\ spy' = [spy EXCEPT !.failed_calls = @ + 1]
    /\ pc' = "finally"
    /\ UNCHANGED <<store_vars, handles, requests, op, args, col, local, prev, call>>

StartGetDeckReviewHistory ==
    \E deck_name \in {"Vocab"} :
        /\ Arrive
        /\ op' = "get_deck_review_history"
        /\ args' = [deck_name |-> deck_name]

\* the entries of the log of one card, latest first
RECURSIVE revlog_of(_, _)
revlog_of(cid, k) ==
    IF k = 0 THEN <<>>
    ELSE (IF revlog[k].cid = cid THEN <<revlog[k]>> ELSE <<>>) \o revlog_of(cid, k - 1)

\* the error for an absent deck, the early return without reviewed cards,
\* else the entries of every reviewed card of the deck
GetDeckReviewHistory ==
    /\ op = "get_deck_review_history" /\ pc = "body"
    /\ LET deck_id == id_for_name(args.deck_name)
           card_ids == cids(deck_id) \cap rated_cards
       IN ret' = IF deck_id = 0
                 THEN [kind |-> "return", msg |-> "Error: Deck not found"]
                 ELSE IF card_ids = {}
                 THEN Returned("No cards reviewed in deck", <<>>)
                 ELSE Returned("Review history for deck",
                               [cid \in card_ids |-> revlog_of(cid, Len(revlog))])
    /\ pc' = "finally"
    /\ UNCHANGED <<store_vars, handles, requests, op, args, col, local, spy, prev, call>>

\* Python's "sub in text"
Contains(text, sub) ==
    \E i \in 0..(Len(text) - Len(sub)) : SubSeq(text, i + 1, i + Len(sub)) = sub

\* sep.join(parts)
RECURSIVE join_with(_, _)
join_with(sep, parts) ==
    IF Len(parts) <= 1 THEN join(parts)
    ELSE Head(parts) \o sep \o join_with(sep, Tail(parts))

\* [s for s in sentences if s not in current_reading]
RECURSIVE new_sentences_of(_, _)
new_sentences_of(sentences, current_reading) ==
    IF sentences = <<>> THEN <<>>
    ELSE (IF Contains(current_reading, Head(sentences)) THEN <<>>
          ELSE <<Head(sentences)>>)
             \o new_sentences_of(Tail(sentences), current_reading)

\* the notes col.find_notes('deck:"<deck>" "note:Japanese (recognition)"
\* "<vocab>"') returns: text search is taken as containment in some field
found_notes(deck_name, vocab) ==
    {n \in cids(id_for_name(deck_name)) :
        /\ notes[n].mid = JapaneseNotetype
        /\ \E f \in 1..Len(notes[n].fields) : Contains(notes[n].fields[f], vocab)}

\* item is (vocab, sentences): the note whose first field is vocab gets the
\* new sentences appended to its third field ("\n\n", then the sentences
\* joined by "<br>- ")
with_sentences(note, item) ==
    LET new_sentences == new_sentences_of(item[2], note.fields[3]) IN
    IF note.fields[1] = item[1] /\ new_sentences # <<>>
    THEN [note EXCEPT !.fields[3] =
              @ \o <<10, 10>> \o join_with(<<60, 98, 114, 62, 45, 32>>, new_sentences)]
    ELSE note

\* vocab_sentences.items(): none, or 食べる with the sentence "s"
SentenceArgs ==
    { <<>>,
      << <<<<39135, 12409, 12427>>, <<<<115>>>>>> >> }

StartUpdateNotes ==
    \E vocab_sentences \in SentenceArgs, deck_name \in {"Vocab"} :
        /\ Arrive
        /\ op' = "update_notes_with_sentences"
        /\ args' = [vocab_sentences |-> vocab_sentences, deck_name |-> deck_name]

\* the two error returns; else every item of the dictionary is applied to
\* the notes found for it and flushed, col.save(), and the summary
UpdateNotes ==
    /\ op = "update_notes_with_sentences" /\ pc = "body"
    /\ LET items == args.vocab_sentences
           hit(n) == {i \in 1..Len(items) :
                         n \in found_notes(args.deck_name, items[i][1])
                         /\ with_sentences(notes[n], items[i]) # notes[n]}
           updated == [n \in 1..Len(notes) |->
                          IF hit(n) = {} THEN notes[n]
                          ELSE with_sentences(notes[n], items[CHOOSE i \in hit(n) : TRUE])]
           not_found == {i \in 1..Len(items) :
                            found_notes(args.deck_name, items[i][1]) = {}}
       IN IF by_name(JapaneseNotetype) = ""
          THEN /\ ret' = [kind |-> "return", msg |-> "Error: note type not found"]
               /\ UNCHANGED <<notes, spy>>
          ELSE IF id_for_name(args.deck_name) = 0
          THEN /\ ret' = [kind |-> "return", msg |-> "Error: Deck not found"]
               /\ UNCHANGED <<notes, spy>>
          ELSE /\ notes' = updated
               /\ spy' = [spy EXCEPT !.save_calls = @ + 1]
               /\ ret' = [kind |-> "return", msg |-> "Update complete",
                          notes_updated |->
                              Cardinality({n \in 1..Len(notes) : hit(n) # {}}),
                          notes_not_found |-> not_found]
    /\ pc' = "finally"
    /\ UNCHANGED <<decks, models, revlog, csv_file, handles, requests, op, args,
                   col, local, prev, call>>

\* ------------------------------------------------------------------------
\* Initial states
\* ------------------------------------------------------------------------

\* all strings over alphabet of length at most n
StringsOver(alphabet, n) == UNION {[1..k -> alphabet] : k \in 0..n}

FullHeader == <<"Expression", "Reading", "Meaning", "Tags">>

\* rows of the csv file: 食べる/たべる/e/"jlpt;n3", 食べ物/たべもの/f/"", a
\* row cut short after the reading, a blank line
CsvRows ==
    { <<<<39135, 12409, 12427>>, <<12383, 12409, 12427>>, <<101>>,
        <<106, 108, 112, 116, 59, 110, 51>>>>,
      <<<<39135, 12409, 29289>>, <<12383, 12409, 12418, 12398>>, <<102>>, <<>>>>,
      <<<<12383, 12409, 12427>>, <<12383, 12409, 12427>>>>,
      <<>> }

CsvFiles ==
    {[exists |-> FALSE, fieldnames |-> <<>>, rows |-> <<>>]}
        \cup {[exists |-> TRUE, fieldnames |-> FullHeader, rows |-> rows] :
                 rows \in StringsOver(CsvRows, MaxRows)}

\* a note 食べる with an old meaning and no reading, filed in deck Vocab
OldNote ==
    [mid |-> JapaneseNotetype, did |-> 2,
     fields |-> <<<<39135, 12409, 12427>>, <<111>>, <<>>>>, tags |-> <<<<111>>>>]

\* collections: with and without the deck, the note type, an existing note
Collections ==
    { [decks |-> {"Default", "Vocab"}, models |-> {"Basic", JapaneseNotetype},
       notes |-> <<>>],
      [decks |-> {"Default", "Vocab"}, models |-> {"Basic", JapaneseNotetype},
       notes |-> <<OldNote>>],
      [decks |-> {"Default"}, models |-> {"Basic", JapaneseNotetype},
       notes |-> <<>>],
      [decks |-> {"Default", "Vocab"}, models |-> {"Basic"}, notes |-> <<>>],
      [decks |-> {"Default"}, models |-> {"Basic"}, notes |-> <<>>] }

NoCall == [fn |-> "none"]

IdleServer ==
    /\ handles = <<>>
    /\ requests = 0
    /\ op = "none"
    /\ args = <<>>
    /\ pc = "idle"
    /\ col = 0
    /\ local = NoLocal
    /\ ret = NoRet
    /\ spy = NoSpy
    /\ prev = NoRequest

EmptyStore ==
    /\ decks = {"Default"}
    /\ models = {"Basic"}
    /\ notes = <<>>
    /\ revlog = <<>>
    /\ csv_file = [exists |-> FALSE, fieldnames |-> <<>>, rows |-> <<>>]

InitImport ==
    /\ \E c \in Collections :
          /\ decks = c.decks
          /\ models = c.models
          /\ notes = c.notes
    /\ revlog = <<>>
    /\ csv_file \in CsvFiles
    /\ IdleServer
    /\ call = NoCall

NextImport ==
    \/ StartImport
    \/ OpenCollection
    \/ OpenCollectionFails
    \/ ImportDeck
    \/ ImportNotetype
    \/ ImportExistingNotes
    \/ ImportRead
    \/ ImportUpdate
    \/ ImportAdd
    \/ ImportAddFails
    \/ ImportNewNoteFails
    \/ ImportSave
    \/ ImportSaveFails
    \/ Finally

SpecImport == InitImport /\ [][NextImport]_vars

\* the csv file of the server behaviours: 食べる and 食べ物
ServerCsvFile ==
    [exists |-> TRUE, fieldnames |-> FullHeader,
     rows |-> << <<<<39135, 12409, 12427>>, <<12383, 12409, 12427>>, <<101>>,
                   <<106, 108, 112, 116, 59, 110, 51>>>>,
                 <<<<39135, 12409, 29289>>, <<12383, 12409, 12418, 12398>>,
                   <<102>>, <<>>>> >>]

Init ==
    /\ \E c \in Collections :
          /\ decks = c.decks
          /\ models = c.models
          /\ notes = c.notes
    /\ revlog = <<>>
    /\ csv_file = ServerCsvFile
    /\ IdleServer
    /\ call = NoCall

Next ==
    \/ NextImport
    \/ StartListDecks
    \/ ListDecks
    \/ StartListDeckCards
    \/ ListDeckCards
    \/ StartListRecentlyReviewed
    \/ ListRecentlyReviewed
    \/ StartListRecentlyLearned
    \/ ListRecentlyLearned
    \/ StartAddCard
    \/ AddCard
    \/ AddCardFails
    \/ ReviewCardInvalidEase
    \/ StartReviewCard
    \/ ReviewCard
    \/ ReviewCardNotFound
    \/ StartGetCardHistory
    \/ GetCardHistory
    \/ GetCardHistoryNotFound
    \/ StartGetDeckReviewHistory
    \/ GetDeckReviewHistory
    \/ StartUpdateNotes
    \/ UpdateNotes

Spec == Init /\ [][Next]_vars

\* ------------------------------------------------------------------------
\* Direct calls of add_furigana
\* ------------------------------------------------------------------------

\* a kanji (U+98DF), two hiragana (U+305F, U+3079), a Latin letter
FuriganaAlphabet == {39135, 12383, 12409, 97}

\* the examples of the documentation: 食べる/たべる, 食べ物/たべもの, たべる/たべる
FuriganaExamples ==
    { <<<<39135, 12409, 12427>>, <<12383, 12409, 12427>>>>,
      <<<<39135, 12409, 29289>>, <<12383, 12409, 12418, 12398>>>>,
      <<<<12383, 12409, 12427>>, <<12383, 12409, 12427>>>> }

FuriganaInputs ==
    (StringsOver(FuriganaAlphabet, MaxLen) \X StringsOver(FuriganaAlphabet, MaxLen))
        \cup FuriganaExamples

InitFurigana ==
    /\ EmptyStore
    /\ IdleServer
    /\ \E p \in FuriganaInputs :
        call = [fn |-> "add_furigana", expression |-> p[1], reading |-> p[2],
                done |-> FALSE, result |-> <<>>]

CallAddFurigana ==
    /\ call.fn = "add_furigana"
    /\ ~ call.done
    /\ call' = [call EXCEPT !.done = TRUE,
                            !.result = add_furigana(call.expression, call.reading)]
    /\ UNCHANGED <<store_vars, request_vars>>

NextFurigana == CallAddFurigana

SpecFurigana == InitFurigana /\ [][NextFurigana]_vars

\* ------------------------------------------------------------------------
\* Direct calls of read_vocab_csv on a file of one row
\* ------------------------------------------------------------------------

\* longest Tags cell in SpecTags
MaxTagLen == 3

\* longest tags argument in SpecTags
MaxArgLen == 2

\* Tags cells over 'a', 'b', ';', ' ', and the documented "jlpt;n3"
TagCells ==
    StringsOver({97, 98, 59, 32}, MaxTagLen)
        \cup {<<106, 108, 112, 116, 59, 110, 51>>}

\* tags arguments over 'c', ',', ' ', no argument, and "batch1"
TagArgs ==
    StringsOver({99, 44, 32}, MaxArgLen)
        \cup {None, <<98, 97, 116, 99, 104, 49>>}

InitTags ==
    /\ EmptyStore
    /\ IdleServer
    /\ \E cell \in TagCells, arg \in TagArgs :
        call = [fn |-> "read_vocab_csv",
                file |-> [exists |-> TRUE, fieldnames |-> FullHeader,
                          rows |-> <<<<<<12383>>, <<12383>>, <<97>>, cell>>>>],
                tags |-> arg,
                done |-> FALSE,
                result |-> [raised |-> FALSE, entries |-> <<>>]]

CallReadVocabCsv ==
    /\ call.fn = "read_vocab_csv"
    /\ ~ call.done
    /\ call' = [call EXCEPT !.done = TRUE,
                            !.result = read_vocab_csv(call.file,
                                                      additional_tags_of(call.tags))]
    /\ UNCHANGED <<store_vars, request_vars>>

NextTags == CallReadVocabCsv

SpecTags == InitTags /\ [][NextTags]_vars

\* ------------------------------------------------------------------------
\* Claims
\* ------------------------------------------------------------------------

HasKanji(s) == \E i \in 1..Len(s) : is_kanji(s[i])

\* C7: for every expression without a kanji and every reading,
\* add_furigana(expression, reading) returns the reading unchanged.
C7_NoKanjiReturnsReading ==
    (call.fn = "add_furigana" /\ call.done /\ ~ HasKanji(call.expression))
        => call.result = call.reading

\* a kanji-free expression that differs from its non-empty reading was annotated
C7_Witness ==
    /\ call.fn = "add_furigana" /\ call.done
    /\ ~ HasKanji(call.expression)
    /\ call.expression # <<>>
    /\ call.reading # <<>>
    /\ call.expression # call.reading
    /\ call.result = call.reading

\* C8: add_furigana("食べ物", "たべもの") = "食[た]べ物[もの]"
C8_TabemonoGloss ==
    (/\ call.fn = "add_furigana" /\ call.done
     /\ call.expression = <<39135, 12409, 29289>>
     /\ call.reading = <<12383, 12409, 12418, 12398>>)
        => call.result =
              <<39135, 91, 12383, 93, 12409, 29289, 91, 12418, 12398, 93>>

\* the number of segments consumed before character i of the expression: a
\* kanji consumes the segment under the cursor if there is one, another
\* character consumes it exactly when it equals it
RECURSIVE Cursor(_, _, _)
Cursor(expression, segments, i) ==
    IF i = 1 THEN 0
    ELSE LET c == Cursor(expression, segments, i - 1)
             char == expression[i - 1]
         IN IF c < Len(segments) /\ (is_kanji(char) \/ <<char>> = segments[c + 1])
            THEN c + 1
            ELSE c

\* what character i of the expression contributes to the result
Emitted(expression, segments, i) ==
    LET c == Cursor(expression, segments, i)
        char == expression[i]
    IN IF is_kanji(char) /\ c < Len(segments)
       THEN <<char, 91>> \o segments[c + 1] \o <<93>>
       ELSE <<char>>

\* C13: for an expression with a kanji, the result of add_furigana is the
\* concatenation, character by character, of: the bare character when it is
\* not a kanji (the cursor advancing by one segment exactly when the
\* character equals the segment under it), the kanji followed by the next
\* unconsumed segment in brackets, or the bare kanji when no segment is
\* left; add_furigana("食べる", "たべる") = "食[た]べる".
C13_CursorFollowsLiteralKana ==
    (call.fn = "add_furigana" /\ call.done /\ HasKanji(call.expression))
    => LET segments == kana_segments_of(call.reading) IN
       /\ call.result =
              join([i \in 1..Len(call.expression) |->
                       Emitted(call.expression, segments, i)])
       /\ (call.expression = <<39135, 12409, 12427>>
              /\ call.reading = <<12383, 12409, 12427>>)
           => call.result = <<39135, 91, 12383, 93, 12409, 12427>>

\* 食べ食 read たべた: the べ of the expression consumed the べ of the
\* reading, so the second kanji got た
C13_Witness ==
    /\ call.fn = "add_furigana" /\ call.done
    /\ call.expression = <<39135, 12409, 39135>>
    /\ call.reading = <<12383, 12409, 12383>>
    /\ call.result = <<39135, 91, 12383, 93, 12409, 39135, 91, 12383, 93>>

\* ---- the store handle ----

\* C9: whatever the tool or resource and however it ends, the Collection it
\* constructed is closed exactly once before the request completes: no
\* handle is closed twice, the only handle that can be open is the one of
\* the request being served, none is open between requests, and no request
\* uses the handle of another.
C9_HandleClosedOnce ==
    /\ \A h \in 1..Len(handles) :
           /\ handles[h].closes <= 1
           /\ handles[h].closes = 0
                 => /\ h = col
                    /\ handles[h].owner = requests
                    /\ pc \in {"body", "notetype", "existing_notes", "read",
                               "loop", "finally"}
    /\ \A g, h \in 1..Len(handles) : handles[g].owner = handles[h].owner => g = h
    /\ col # 0 => (col \in 1..Len(handles) /\ handles[col].owner = requests)
    /\ pc \in {"idle", "done"}
          => \A h \in 1..Len(handles) : handles[h].closes = 1

\* a request that raised after opening its handle completed, after a
\* request that returned early with an error message
C9_Witness ==
    /\ pc = "done" /\ ret.kind = "raise" /\ col = 2
    /\ prev.ret.kind = "return" /\ prev.ret.msg = "Error: Deck not found"
    /\ handles = <<[owner |-> 1, closes |-> 1], [owner |-> 2, closes |-> 1]>>

\* ---- review_card, get_card_history ----

\* C16: get_card_history(card_id) returns only entries of the review log
\* that belong to the card card_id, and the message that no review history
\* was found when the log has no entry of that card.
C16_HistoryOfThatCardOnly ==
    (op = "get_card_history" /\ pc = "done" /\ ret.kind = "return")
    => /\ \A k \in 1..Len(ret.value) : ret.value[k].cid = args.card_id
       /\ (\A k \in 1..Len(revlog) : revlog[k].cid # args.card_id)
             => ret.msg = "No review history found for card"

InvalidEase(arguments) == ~ (1 <= arguments.ease /\ arguments.ease <= 4)

\* the request was refused: it raised, it has no handle and none is open
RefusedBeforeOpening ==
    /\ pc = "done"
    /\ ret = Raised("Ease must be between 1 and 4")
    /\ col = 0
    /\ \A h \in 1..Len(handles) :
           handles[h].owner # requests /\ handles[h].closes = 1

\* the card was answered with the ease of the request through a handle
\* that is now closed
AnsweredAndClosed ==
    /\ ret.kind = "return"
    /\ col \in 1..Len(handles)
    /\ handles[col] = [owner |-> requests, closes |-> 1]
    /\ revlog # <<>>
    /\ revlog[Len(revlog)] = [cid |-> args.card_id, ease |-> args.ease]

\* C17: review_card with ease outside 1..4 raises without constructing a
\* Collection and leaves the collection as it was; with ease in 1..4 (and
\* a card that exists) it constructs a Collection, logs one review of that
\* card with that ease through it, and closes it.
C17_EaseCheckedBeforeOpening ==
    /\ []((op = "review_card" /\ InvalidEase(args)) => RefusedBeforeOpening)
    /\ [][(op' = "review_card" /\ InvalidEase(args'))
            => (UNCHANGED store_vars /\ handles' = handles)]_vars
    /\ []((op = "review_card" /\ ~ InvalidEase(args) /\ pc = "done"
               /\ col # 0 /\ args.card_id \in 1..Len(notes))
            => AnsweredAndClosed)
    /\ [][(op = "review_card" /\ revlog' # revlog)
            => /\ revlog' = Append(revlog, [cid |-> args.card_id, ease |-> args.ease])
               /\ col \in 1..Len(handles)
               /\ handles[col].closes = 0]_vars

\* a review with ease 4 was logged and its handle closed, after a request
\* with ease 5 that was refused without a handle
C17_Witness ==
    /\ op = "review_card" /\ pc = "done" /\ args.ease = 4
    /\ AnsweredAndClosed
    /\ prev.op = "review_card" /\ prev.args.ease = 5
    /\ prev.ret = Raised("Ease must be between 1 and 4")
    /\ Len(handles) = 1

\* ---- import_japanese_vocab ----

ImportDone == op = Import /\ pc = "done"

TargetAbsent ==
    args.deck_name \notin decks \/ JapaneseNotetype \notin models

DistinctExpressions(entries) ==
    \A j, k \in 1..Len(entries) :
        entries[j].expression = entries[k].expression => j = k

\* the notes filed under the target deck when the run started
InDeckBefore ==
    {n \in 1..Len(spy.notes_before) :
        spy.notes_before[n].did = DeckIds[args.deck_name]}

\* the run went through its rows: the deck and the note type exist and the
\* source was parsed
RowsParsed ==
    /\ ~ TargetAbsent
    /\ col # 0
    /\ spy.source_opens = 1
    /\ ~ read_vocab_csv(csv_file, additional_tags_of(args.tags)).raised

\* C1: a run into a deck without notes, over N parsed rows with pairwise
\* distinct expressions and without a failing store call, returns added = N,
\* updated = 0, skipped = 0, and the collection holds exactly N more notes,
\* the k-th of them filed under the target deck with the fields and the tags
\* of the k-th row.
C1_FreshImportAddsEveryRow ==
    (/\ ImportDone
     /\ RowsParsed
     /\ spy.failed_calls = 0
     /\ InDeckBefore = {}
     /\ DistinctExpressions(local.vocab_entries))
    => LET N == Len(local.vocab_entries)
           B == Len(spy.notes_before)
       IN /\ ret.kind = "return" /\ ret.msg = "Import complete"
          /\ ret.added = N /\ ret.updated = 0 /\ ret.skipped = 0
          /\ Len(notes) = B + N
          /\ SubSeq(notes, 1, B) = spy.notes_before
          /\ \A k \in 1..N :
                 /\ notes[B + k].did = DeckIds[args.deck_name]
                 /\ notes[B + k].mid = JapaneseNotetype
                 /\ notes[B + k].fields = local.vocab_entries[k].fields
                 /\ notes[B + k].tags = local.vocab_entries[k].tags
                 /\ notes[B + k].fields[1] =
                        strip(nonblank_rows(csv_file.rows)[k][1])

\* a fresh run over two distinct rows ended
C1_Witness ==
    /\ ImportDone /\ RowsParsed /\ spy.failed_calls = 0
    /\ InDeckBefore = {}
    /\ DistinctExpressions(local.vocab_entries)
    /\ Len(local.vocab_entries) = 2
    /\ ret.kind = "return" /\ ret.added = 2

\* the request before this one was the same import and added all its rows
SecondRunOfSameImport ==
    /\ ImportDone
    /\ prev.op = Import
    /\ prev.args = args
    /\ prev.ret.kind = "return"
    /\ prev.ret.msg = "Import complete"
    /\ prev.ret.added = Len(nonblank_rows(csv_file.rows))
    /\ spy.failed_calls = 0

\* C2: the same import run again after a run that added all its N rows
\* (distinct expressions) returns added = 0 and updated = N, and leaves
\* the fields and the tags of every note as they were after the first run.
C2_SecondRunUpdatesEveryRow ==
    (SecondRunOfSameImport /\ DistinctExpressions(local.vocab_entries))
    => LET N == Len(nonblank_rows(csv_file.rows)) IN
       /\ ret.kind = "return" /\ ret.msg = "Import complete"
       /\ ret.added = 0 /\ ret.updated = N /\ ret.skipped = 0
       /\ notes = spy.notes_before
       /\ \A e \in DOMAIN local.existing_notes :
              LET note == local.existing_notes[e] IN
              /\ note.fields = spy.notes_before[note.nid].fields
              /\ note.tags = spy.notes_before[note.nid].tags

\* a second run over two rows ended
C2_Witness ==
    /\ SecondRunOfSameImport
    /\ DistinctExpressions(local.vocab_entries)
    /\ Len(local.vocab_entries) = 2
    /\ ret.kind = "return" /\ ret.updated = 2

\* C3: when col.add_note raises for a row, skipped grows by exactly 1,
\* added and updated keep their values, the run is not ended, and the loop
\* goes on with the next row; a run in which no other call fails attempts
\* every parsed row.
C3_FailedAddIsSkipped ==
    /\ [][(op = Import /\ spy'.add_note_raised = spy.add_note_raised + 1)
            => /\ local'.notes_skipped = local.notes_skipped + 1
               /\ local'.notes_added = local.notes_added
               /\ local'.notes_updated = local.notes_updated
               /\ local'.next = local.next + 1
               /\ pc' = "loop"
               /\ ret' = NoRet
               /\ notes' = notes]_vars
    /\ [](( /\ ImportDone /\ RowsParsed
            /\ spy.failed_calls = spy.add_note_raised)
           => /\ ret.kind = "return" /\ ret.msg = "Import complete"
              /\ ret.skipped = spy.add_note_raised
              /\ Len(spy.row_outcome) = Len(local.vocab_entries))

\* the first of two rows was skipped and the second one added
C3_Witness ==
    /\ ImportDone
    /\ spy.row_outcome = <<"skipped", "added">>
    /\ ret.kind = "return" /\ ret.skipped = 1 /\ ret.added = 1

\* C4: when the deck or the note type is absent, the run never opens the
\* source, never creates or modifies a note and never calls col.save().
C4_AbsentTargetNoPartialWork ==
    (op = Import /\ TargetAbsent)
    => /\ spy.source_opens = 0
       /\ spy.save_calls = 0
       /\ notes = spy.notes_before
       /\ local.vocab_entries = <<>>
       /\ local.existing_notes = <<>>
       /\ spy.row_outcome = <<>>

\* a run against an absent deck or note type ended after opening the collection
C4_Witness ==
    /\ ImportDone /\ TargetAbsent /\ col # 0
    /\ csv_file.exists /\ csv_file.rows # <<>>

\* C5 as stated: a run against an absent deck or note type ends with a
\* raised error, not with a returned value.
C5_AbsentTargetRaises ==
    (ImportDone /\ TargetAbsent) => ret.kind = "raise"

\* C5 amended: once the collection is open, a run against an absent deck or
\* note type returns an error message (the deck is looked up first), raises
\* nothing and returns no summary.
C5_AbsentTargetReturnsMessage ==
    (ImportDone /\ TargetAbsent /\ col # 0)
    => /\ ret.kind = "return"
       /\ ret.msg = IF args.deck_name \notin decks
                    THEN "Error: Deck not found"
                    ELSE "Error: note type not found"

\* a run against an absent note type returned its message
C5_Witness ==
    /\ ImportDone /\ col # 0
    /\ args.deck_name \in decks /\ JapaneseNotetype \notin models
    /\ ret.kind = "return"

\* C10 as stated: col.save() is called at most once, only after every
\* parsed row was attempted, and never in a run that ends with an error.
C10_SaveOnceAtEndNeverOnError ==
    op = Import
    => /\ spy.save_calls <= 1
       /\ spy.save_calls = 1
             => /\ spy.source_opens = 1
                /\ Len(spy.row_outcome) = Len(local.vocab_entries)
       /\ (pc = "done" /\ ret.kind = "raise") => spy.save_calls = 0

\* C10 amended: col.save() is called at most once, only after every parsed
\* row was attempted; a run that ends with an error has not called it,
\* unless the error is raised by col.save() itself.
C10_SaveOnceAtEnd ==
    op = Import
    => /\ spy.save_calls <= 1
       /\ spy.save_calls = 1
             => /\ spy.source_opens = 1
                /\ Len(spy.row_outcome) = Len(local.vocab_entries)
       /\ (pc = "done" /\ ret.kind = "raise" /\ ret.msg # "save")
             => spy.save_calls = 0

\* a run that updated one row and added another saved once and returned
C10_Witness ==
    /\ ImportDone /\ ret.kind = "return" /\ ret.msg = "Import complete"
    /\ spy.save_calls = 1
    /\ spy.row_outcome = <<"updated", "added">>

\* row k is the last row of the run with its expression
LastRowWithItsExpression(k) ==
    \A j \in (k + 1)..Len(local.vocab_entries) :
        local.vocab_entries[j].expression # local.vocab_entries[k].expression

\* C11: after a run that returned its summary, every row whose expression is
\* a key of existing_notes was counted as updated, and the note stored in
\* the collection under that key has the fields and the tags of the (last
\* such) row, whether or not they differ from the old ones.
C11_UpdateOverwritesStoredNote ==
    (ImportDone /\ RowsParsed /\ ret.kind = "return" /\ ret.msg = "Import complete")
    => \A k \in 1..Len(local.vocab_entries) :
           LET entry == local.vocab_entries[k] IN
           entry.expression \in DOMAIN local.existing_notes
           => /\ spy.row_outcome[k] = "updated"
              /\ LastRowWithItsExpression(k)
                    => LET stored == notes[local.existing_notes[entry.expression].nid]
                       IN /\ stored.fields = entry.fields
                          /\ stored.tags = entry.tags

\* the csv file cannot be parsed: it cannot be opened, or one of its rows
\* lacks a cell of a column of the header
SourceMalformed ==
    \/ ~ csv_file.exists
    \/ \E k \in 1..Len(csv_file.rows) :
           /\ csv_file.rows[k] # <<>>
           /\ Len(csv_file.rows[k]) < Len(csv_file.fieldnames)

\* C12: the first row is reconciled only after the whole source was parsed
\* without an error; when the source is malformed at any row, no note is
\* created or modified, col.save() is not called, and the run that reaches
\* the source ends with the raised error.
C12_ParseBeforeFirstRow ==
    op = Import
    => /\ spy.row_outcome # <<>>
             => /\ spy.source_opens = 1
                /\ ~ SourceMalformed
                /\ Len(local.vocab_entries) = Len(nonblank_rows(csv_file.rows))
       /\ SourceMalformed
             => /\ notes = spy.notes_before
                /\ spy.save_calls = 0
                /\ spy.row_outcome = <<>>
                /\ \A e \in DOMAIN local.existing_notes :
                       LET note == local.existing_notes[e] IN
                       /\ note.fields = notes[note.nid].fields
                       /\ note.tags = notes[note.nid].tags
       /\ (SourceMalformed /\ spy.source_opens = 1)
             => /\ pc \in {"finally", "done"}
                /\ ret = Raised("read_vocab_csv")

\* a run into a deck with a note ended with the error of the second row,
\* after a first row that parses
C12_Witness ==
    /\ ImportDone /\ spy.source_opens = 1
    /\ csv_file.exists /\ Len(csv_file.rows) = 2
    /\ Len(csv_file.rows[1]) = 4 /\ Len(csv_file.rows[2]) = 2
    /\ DOMAIN local.existing_notes # {}
    /\ ret = Raised("read_vocab_csv")

\* the first fields of the notes filed under the target deck when the run
\* started
KeysBefore == {spy.notes_before[n].fields[1] : n \in InDeckBefore}

\* C14: from the moment the source is read, the keys of existing_notes are
\* the first fields of the notes the deck held when the run started: rows
\* neither add nor remove a key. So a run without a failing call adds one
\* note for every row whose expression is not such a key, rows repeating
\* an expression included: two rows with the same new expression add 2.
C14_IndexBuiltOnce ==
    (op = Import /\ spy.source_opens = 1)
    => /\ DOMAIN local.existing_notes = KeysBefore
       /\ (pc = "done" /\ ret.kind = "return" /\ spy.failed_calls = 0)
             => /\ ret.added =
                       Cardinality({k \in 1..Len(local.vocab_entries) :
                                       local.vocab_entries[k].expression \notin KeysBefore})
                /\ Len(notes) = Len(spy.notes_before) + ret.added

\* a run over two rows with the same expression, which no note of the deck
\* had, added two notes
C14_Witness ==
    /\ ImportDone /\ spy.source_opens = 1
    /\ Len(local.vocab_entries) = 2
    /\ local.vocab_entries[1].expression = local.vocab_entries[2].expression
    /\ KeysBefore # {}
    /\ local.vocab_entries[1].expression \notin KeysBefore
    /\ ret.kind = "return" /\ ret.added = 2
    /\ Len(notes) = Len(spy.notes_before) + 2

\* the three counters of the run
Counters == <<local.notes_added, local.notes_updated, local.notes_skipped>>

\* the counters are non-negative and sum to the rows gone through; the
\* summary reports them
CountersSumToRowsDone ==
    /\ \A c \in 1..3 : Counters[c] >= 0
    /\ Counters[1] + Counters[2] + Counters[3] = local.next - 1
    /\ (pc = "done" /\ ret.kind = "return" /\ ret.msg = "Import complete")
          => /\ <<ret.added, ret.updated, ret.skipped>> = Counters
             /\ ret.added + ret.updated + ret.skipped =
                    Len(nonblank_rows(csv_file.rows))

\* the step goes through one row and adds 1 to exactly one counter
RowCountedOnce ==
    /\ local'.next = local.next + 1
    /\ \E c \in 1..3 :
           /\ Counters'[c] = Counters[c] + 1
           /\ \A d \in (1..3) \ {c} : Counters'[d] = Counters[d]

\* C15: in every state of a run the three counters are non-negative and
\* their sum is the number of rows the loop has gone through; a step that
\* goes through a row adds 1 to exactly one counter and leaves the other
\* two; the summary of a completed run reports these counters, whose sum is
\* the number of parsed rows.
C15_CountersPartitionRows ==
    /\ [](op = Import => CountersSumToRowsDone)
    /\ [][(op = Import /\ pc = "loop" /\ local'.next # local.next)
            => RowCountedOnce]_vars

\* a run updated its first row, skipped its second one and returned
C15_Witness ==
    /\ ImportDone
    /\ spy.row_outcome = <<"updated", "skipped">>
    /\ ret.kind = "return" /\ ret.msg = "Import complete"
    /\ ret.added = 0 /\ ret.updated = 1 /\ ret.skipped = 1

\* ---- japanese_utils.py ----

\* s with sep between consecutive pieces
RECURSIVE JoinWith(_, _)
JoinWith(pieces, sep) ==
    IF Len(pieces) <= 1 THEN join(pieces)
    ELSE Head(pieces) \o <<sep>> \o JoinWith(Tail(pieces), sep)

\* t is p without its leading and trailing whitespace
IsTrimOf(t, p) ==
    /\ t = <<>> \/ (t[1] \notin Whitespace /\ t[Len(t)] \notin Whitespace)
    /\ \E a \in 0..Len(p) :
           /\ a + Len(t) <= Len(p)
           /\ SubSeq(p, a + 1, a + Len(t)) = t
           /\ \A k \in (1..a) \cup ((a + Len(t) + 1)..Len(p)) : p[k] \in Whitespace

\* the position of the k-th separator sep of text; 0 before the first one
\* and Len(text) + 1 after the last one
SepPos(text, sep, k) ==
    LET seps == {i \in 1..Len(text) : text[i] = sep} IN
    IF k = 0 THEN 0
    ELSE IF k > Cardinality(seps) THEN Len(text) + 1
    ELSE CHOOSE i \in seps : Cardinality({j \in seps : j < i}) = k - 1

\* labels are the trimmed pieces of text between the separators sep
IsLabelsOf(labels, text, sep) ==
    LET n == 1 + Cardinality({i \in 1..Len(text) : text[i] = sep}) IN
    /\ Len(labels) = n
    /\ \A k \in 1..n :
           IsTrimOf(labels[k],
                    SubSeq(text, SepPos(text, sep, k - 1) + 1,
                           SepPos(text, sep, k) - 1))

IsBlank(text) == \A i \in 1..Len(text) : text[i] \in Whitespace

\* C6: the tags of a parsed row are the trimmed semicolon-separated labels
\* of its Tags cell (none when the cell is blank) followed by the extra
\* tags of the run, which are the trimmed comma-separated labels of the
\* tags argument (none when it is absent or empty); for Tags "jlpt;n3" and
\* extra tag "batch1" the tag set is {"jlpt", "n3", "batch1"}.
C6_TagsAreSourceThenExtras ==
    (call.fn = "read_vocab_csv" /\ call.done) =>
        /\ ~ call.result.raised
        /\ Len(call.result.entries) = 1
        /\ LET note_tags == call.result.entries[1].tags
               cell == call.file.rows[1][4]
               n == IF IsBlank(cell) THEN 0
                    ELSE 1 + Cardinality({i \in 1..Len(cell) : cell[i] = 59})
           IN /\ n <= Len(note_tags)
              /\ IsBlank(cell) \/ IsLabelsOf(SubSeq(note_tags, 1, n), cell, 59)
              /\ IF call.tags = None \/ call.tags = <<>>
                 THEN Len(note_tags) = n
                 ELSE IsLabelsOf(SubSeq(note_tags, n + 1, Len(note_tags)),
                                 call.tags, 44)
              /\ (cell = <<106, 108, 112, 116, 59, 110, 51>>
                     /\ call.tags = <<98, 97, 116, 99, 104, 49>>)
                  => {note_tags[k] : k \in 1..Len(note_tags)} =
                         {<<106, 108, 112, 116>>, <<110, 51>>,
                          <<98, 97, 116, 99, 104, 49>>}

\* a row with two untrimmed source labels and an extra tag was parsed
C6_Witness ==
    /\ call.fn = "read_vocab_csv" /\ call.done
    /\ call.file.rows[1][4] = <<97, 59, 32>>
    /\ call.tags = <<32, 99>>
    /\ call.result.entries[1].tags = <<<<97>>, <<>>, <<99>>>>

\* the documented example was parsed
C6_WitnessExample ==
    /\ call.fn = "read_vocab_csv" /\ call.done
    /\ call.file.rows[1][4] = <<106, 108, 112, 116, 59, 110, 51>>
    /\ call.tags = <<98, 97, 116, 99, 104, 49>>
    /\ call.result.entries[1].tags =
           <<<<106, 108, 112, 116>>, <<110, 51>>, <<98, 97, 116, 99, 104, 49>>>>

====
